---- MODULE Spec2Model ----
(***************************************************************************)
(* Decision pipeline of src/app.py (AgroScan AI, a Streamlit script):      *)
(* model.predict -> threshold filter -> descending sort -> primary /       *)
(* secondary cards or the healthy message -> optional PDF report.          *)
(*                                                                         *)
(* Probabilities are fixed-point numbers in millionths (825556 = 0.825556);*)
(* a piece of text is a sequence of fragments (literal prefixes, one       *)
(* character per fragment for a formatted number), so that formatting is   *)
(* computed and can be read back.  prob > THRESHOLD compares the two       *)
(* values exactly, as the comparison of two floats does; the probabilities *)
(* of ProbTable are none of them halfway between two hundredths of a       *)
(* percent, where the binary value of a float would decide the rounding.   *)
(***************************************************************************)
EXTENDS Integers, Sequences, FiniteSets, TLC

VARIABLES
    model,          \* output width of the network loaded at line 204
    label_columns,  \* global list, lines 94-103
    threshold,      \* global THRESHOLD, line 92
    disease_info,   \* global dict, lines 154-195
    uploaded_file,  \* st.file_uploader's value, lines 251-254
    pc,             \* position of the script run
    preds,          \* predict_image's local preds, line 215
    predictions,    \* result of predict_image, line 271
    screen,         \* what the run has written to the page so far
    elements,       \* generate_pdf's flowables handed to doc.build
    err,            \* the exception that ended the run ("" for none)
    lastRanked      \* history: predictions of the previous run on this file

vars == <<model, label_columns, threshold, disease_info, uploaded_file, pc,
          preds, predictions, screen, elements, err, lastRanked>>

-----------------------------------------------------------------------------
(* Configuration, lines 89-195 *)

THRESHOLD == 400000

LabelColumnsLiteral ==
    << "Early blight", "Healthy", "Late blight", "Leaf Miner",
       "Magnesium Deficiency", "Nitrogen Deficiency",
       "Pottassium Deficiency", "Spotted Wilt Virus" >>

NumLabels == Len(LabelColumnsLiteral)

\* The knowledge base as it would be had the "Healthy" entry been forgotten.
DiseaseInfoWithoutHealthy ==
    [ d \in { "Early blight", "Late blight", "Leaf Miner",
              "Magnesium Deficiency", "Nitrogen Deficiency",
              "Pottassium Deficiency", "Spotted Wilt Virus" } |->
      [ info |-> "info", treatment |-> "treatment", spray |-> "spray" ] ]

DiseaseInfoLiteral ==
    [ d \in { "Early blight", "Late blight", "Leaf Miner",
              "Magnesium Deficiency", "Nitrogen Deficiency",
              "Pottassium Deficiency", "Spotted Wilt Virus", "Healthy" } |->
      CASE d = "Early blight" ->
             [ info      |-> "Fungal disease causing brown concentric spots.",
               treatment |-> "Remove infected leaves. Improve air circulation.",
               spray     |-> "Spray Mancozeb or Chlorothalonil every 7-10 days." ]
        [] d = "Late blight" ->
             [ info      |-> "Serious fungal disease causing dark lesions.",
               treatment |-> "Remove affected plants immediately.",
               spray     |-> "Use Metalaxyl + Mancozeb spray." ]
        [] d = "Leaf Miner" ->
             [ info      |-> "Insect larvae feeding inside leaves.",
               treatment |-> "Remove affected leaves.",
               spray     |-> "Spray Spinosad or Neem oil." ]
        [] d = "Magnesium Deficiency" ->
             [ info      |-> "Yellowing between leaf veins.",
               treatment |-> "Apply Epsom salt solution.",
               spray     |-> "Foliar spray of Magnesium Sulfate." ]
        [] d = "Nitrogen Deficiency" ->
             [ info      |-> "Older leaves turn pale yellow.",
               treatment |-> "Add nitrogen-rich fertilizer.",
               spray     |-> "Apply Urea solution carefully." ]
        [] d = "Pottassium Deficiency" ->
             [ info      |-> "Leaf edge burning and yellowing.",
               treatment |-> "Apply potash fertilizer.",
               spray     |-> "Use Potassium nitrate spray." ]
        [] d = "Spotted Wilt Virus" ->
             [ info      |-> "Virus causing ring spots and distortion.",
               treatment |-> "Remove infected plants.",
               spray     |-> "Control thrips using recommended insecticide." ]
        [] d = "Healthy" ->
             [ info      |-> "Plant appears healthy.",
               treatment |-> "Maintain proper irrigation and nutrition.",
               spray     |-> "No spray required." ] ]

-----------------------------------------------------------------------------
(* Inputs *)

\* How many of the probabilities of ProbTable an uploaded image may score.
MaxProbs == 3

\* How far the loaded network's output width may be from the label count.
MaxWidthDiff == 1

\* Exactly the threshold, one millionth above it, well above it, well below
\* it, and one that formats with three integer digits.
ProbTable == << 400000, 400001, 825556, 100000, 999960 >>

ProbValues ==
    { ProbTable[k] : k \in 1..(IF MaxProbs < Len(ProbTable) THEN MaxProbs
                                                             ELSE Len(ProbTable)) }

NoFile == [ present |-> FALSE, scorable |-> FALSE, scores |-> << >> ]

\* An uploaded image is identified with what model.predict does on it: it
\* raises, or it returns one probability per output unit of the network.
Files(width) ==
    { [ present |-> TRUE, scorable |-> TRUE, scores |-> v ] :
          v \in [ 1..width -> ProbValues ] }
    \cup { [ present |-> TRUE, scorable |-> FALSE, scores |-> << >> ] }

Widths == { w \in (NumLabels - MaxWidthDiff)..(NumLabels + MaxWidthDiff) : w >= 1 }

NoHistory == [ valid |-> FALSE, predictions |-> << >> ]

-----------------------------------------------------------------------------
(* Number formatting: f"{prob*100:.2f}", lines 240, 291, 321 *)

Digit(d) == << "0", "1", "2", "3", "4", "5", "6", "7", "8", "9" >>[d + 1]

RECURSIVE IntDigits(_)
IntDigits(n) == IF n < 10 THEN << Digit(n) >>
                ELSE Append(IntDigits(n \div 10), Digit(n % 10))

\* prob*100 rounded to hundredths (of a percent), ties to even: prob is in
\* millionths, so a hundredth of a percent is 100 millionths.
Hundredths(prob) ==
    LET q == prob \div 100
        r == prob % 100
    IN  IF r > 50 \/ (r = 50 /\ q % 2 = 1) THEN q + 1 ELSE q

\* The format as it would be with one decimal place, f"{prob*100:.1f}".
Format1f(prob) ==
    LET q == prob \div 1000
        r == prob % 1000
        t == IF r > 500 \/ (r = 500 /\ q % 2 = 1) THEN q + 1 ELSE q
    IN  IntDigits(t \div 10) \o << ".", Digit(t % 10) >>

Format2f(prob) ==
    LET h == Hundredths(prob)
    IN  IntDigits(h \div 100) \o << ".", Digit((h \div 10) % 10), Digit(h % 10) >>

-----------------------------------------------------------------------------
(* predict_image, lines 217-223 *)

\* for i, prob in enumerate(preds): if prob > THRESHOLD:
\*     results.append((label_columns[i], float(prob)))
\* label_columns[i] raises IndexError past the end of the list.
\* The loop as it would be with "prob >= THRESHOLD".
RECURSIVE FilterLoopAtLeast(_, _, _)
FilterLoopAtLeast(ps, i, results) ==
    IF i > Len(ps) THEN [ ok |-> TRUE, results |-> results ]
    ELSE IF ps[i] >= threshold
         THEN IF i > Len(label_columns)
              THEN [ ok |-> FALSE, results |-> results ]
              ELSE FilterLoopAtLeast(ps, i + 1,
                                     Append(results, << label_columns[i], ps[i] >>))
         ELSE FilterLoopAtLeast(ps, i + 1, results)

RECURSIVE FilterLoop(_, _, _)
FilterLoop(ps, i, results) ==
    IF i > Len(ps) THEN [ ok |-> TRUE, results |-> results ]
    ELSE IF ps[i] > threshold
         THEN IF i > Len(label_columns)
              THEN [ ok |-> FALSE, results |-> results ]
              ELSE FilterLoop(ps, i + 1,
                              Append(results, << label_columns[i], ps[i] >>))
         ELSE FilterLoop(ps, i + 1, results)

\* Where x goes in a list already in descending order of x[2]: before the
\* first element with a smaller key, so after every element with an equal one.
RECURSIVE InsertPos(_, _, _)
InsertPos(sorted, x, k) ==
    IF k > Len(sorted) \/ sorted[k][2] < x[2] THEN k
    ELSE InsertPos(sorted, x, k + 1)

InsertAt(sorted, x, k) ==
    SubSeq(sorted, 1, k - 1) \o << x >> \o SubSeq(sorted, k, Len(sorted))

InsertDesc(sorted, x) == InsertAt(sorted, x, InsertPos(sorted, x, 1))

\* results.sort(key=lambda x: x[1], reverse=True): list.sort is stable, and
\* with reverse=True elements with equal keys still keep their order.
RECURSIVE SortDescFrom(_, _, _)
SortDescFrom(results, i, sorted) ==
    IF i > Len(results) THEN sorted
    ELSE SortDescFrom(results, i + 1, InsertDesc(sorted, results[i]))

\* The sort as it would be were the call to results.sort left out.
SortLeftOut(results) == results

\* The sort as it would be written sorted(results, key=...)[::-1]: ascending
\* and stable, then reversed, which reverses the order of equal keys.
RECURSIVE SortAscendingReversed(_)
SortAscendingReversed(results) ==
    IF results = << >> THEN << >>
    ELSE InsertDesc(SortAscendingReversed(Tail(results)), Head(results))

SortDesc(results) == SortDescFrom(results, 1, << >>)

-----------------------------------------------------------------------------
(* Knowledge-base lookups, lines 241-243, 302-308, 331-337 *)

HasEntry(disease) ==
    /\ disease \in DOMAIN disease_info
    /\ { "info", "treatment", "spray" } \subseteq DOMAIN disease_info[disease]

-----------------------------------------------------------------------------
(* Main flow, lines 273-352 *)

Item(kind, label, text) == [ kind |-> kind, label |-> label, text |-> text ]

\* The glass card of a finding: its label and "NN.NN% Confidence".
Card(kind, finding) ==
    Item(kind, finding[1], Format2f(finding[2]) \o << "% ", "confidence" >>)

\* The expander under a card: description, treatment, spray.
Expander(disease) ==
    Item("expander", disease,
         << disease_info[disease]["info"],
            disease_info[disease]["treatment"],
            disease_info[disease]["spray"] >>)

\* for disease, prob in secondary: card, then expander (lines 314-337).
RECURSIVE SecondaryLoop(_, _, _)
SecondaryLoop(secondary, i, out) ==
    IF i > Len(secondary) THEN [ ok |-> TRUE, items |-> out ]
    ELSE LET shown == Append(out, Card("secondary", secondary[i]))
         IN  IF HasEntry(secondary[i][1])
             THEN SecondaryLoop(secondary, i + 1,
                                Append(shown, Expander(secondary[i][1])))
             ELSE [ ok |-> FALSE, items |-> shown ]

\* if predictions: ... (lines 273-337), up to the PDF checkbox.
ShowFindings(ps) ==
    LET primary   == ps[1]
        secondary == Tail(ps)
        card      == << Card("primary", primary) >>
    IN  IF ~HasEntry(primary[1]) THEN [ ok |-> FALSE, items |-> card ]
        ELSE LET top == Append(card, Expander(primary[1]))
             IN  IF secondary = << >> THEN [ ok |-> TRUE, items |-> top ]
                 ELSE SecondaryLoop(secondary, 1,
                          Append(top, Item("header", "", << "secondary" >>)))

-----------------------------------------------------------------------------
(* generate_pdf, lines 229-247 *)

Paragraph(text, style) == [ kind |-> "Paragraph", style |-> style, text |-> text ]

Spacer(height) == [ kind |-> "Spacer", style |-> "", text |-> << height >> ]

\* for disease, prob in predictions: five paragraphs and a spacer.
RECURSIVE SectionLoop(_, _, _)
SectionLoop(ps, i, out) ==
    IF i > Len(ps) THEN [ ok |-> TRUE, elements |-> out ]
    ELSE LET disease == ps[i][1]
             prob    == ps[i][2]
         IN  IF ~HasEntry(disease) THEN [ ok |-> FALSE, elements |-> << >> ]
             ELSE SectionLoop(ps, i + 1,
                    out \o
                    << Paragraph(<< "Disease: ", disease >>, "Heading2"),
                       Paragraph(<< "Confidence: " >> \o Format2f(prob) \o << "%" >>,
                                 "Normal"),
                       Paragraph(<< "Info: ", disease_info[disease]["info"] >>,
                                 "Normal"),
                       Paragraph(<< "Treatment: ",
                                    disease_info[disease]["treatment"] >>, "Normal"),
                       Paragraph(<< "Spray Suggestion: ",
                                    disease_info[disease]["spray"] >>, "Normal"),
                       Spacer("0.3in") >>)

generate_pdf(ps) ==
    SectionLoop(ps, 1,
                << Paragraph(<< "Tomato Disease Detection Report" >>, "Title"),
                   Spacer("0.5in") >>)

-----------------------------------------------------------------------------
(* The script run.  An action binds the result of a call once, as r. *)

\* Lines 92-204: the globals are assigned and the network is loaded.
Globals(width) ==
    /\ model = width
    /\ label_columns = LabelColumnsLiteral
    /\ threshold = THRESHOLD
    /\ disease_info = DiseaseInfoLiteral

FreshRun ==
    /\ preds = << >>
    /\ predictions = << >>
    /\ screen = << >>
    /\ elements = << >>
    /\ err = ""

\* The deployed network: one output unit per label.
Init ==
    /\ Globals(NumLabels)
    /\ uploaded_file = NoFile
    /\ pc = "idle"
    /\ FreshRun
    /\ lastRanked = NoHistory

\* Any network file the script may find: its output width is not checked.
InitAnyWidth ==
    /\ \E width \in Widths : Globals(width)
    /\ uploaded_file = NoFile
    /\ pc = "idle"
    /\ FreshRun
    /\ lastRanked = NoHistory

\* Lines 251-257: the user uploads an image; the script runs with it.
Upload ==
    /\ pc = "idle"
    /\ \E file \in Files(model) : uploaded_file' = file
    /\ pc' = "predict"
    /\ lastRanked' = NoHistory
    /\ UNCHANGED << model, label_columns, threshold, disease_info,
                    preds, predictions, screen, elements, err >>

\* predict_image as it would be with the call to model.predict wrapped in a
\* try/except that goes on with an empty vector.
InferSwallowing ==
    /\ pc = "predict"
    /\ preds' = uploaded_file.scores
    /\ pc' = "rank"
    /\ UNCHANGED << model, label_columns, threshold, disease_info, uploaded_file,
                    predictions, screen, elements, err, lastRanked >>

\* Lines 210-215: preds = model.predict(img_array, verbose=0)[0]; an
\* exception of model.predict leaves predict_image and ends the run.
Infer ==
    /\ pc = "predict"
    /\ IF uploaded_file.scorable
       THEN /\ preds' = uploaded_file.scores
            /\ pc' = "rank"
            /\ err' = err
       ELSE /\ preds' = preds
            /\ pc' = "error"
            /\ err' = "InferenceError"
    /\ UNCHANGED << model, label_columns, threshold, disease_info,
                    uploaded_file, predictions, screen, elements, lastRanked >>

\* predict_image as it would be were results a module-level list that is
\* never cleared: each call appends to what the call before left.
RankAccumulating ==
    /\ pc = "rank"
    /\ \E r \in { FilterLoop(preds, 1, lastRanked.predictions) } :
           /\ predictions' = SortDesc(r.results)
           /\ pc' = IF r.ok THEN "main" ELSE "error"
           /\ err' = IF r.ok THEN err ELSE "IndexError"
    /\ UNCHANGED << model, label_columns, threshold, disease_info,
                    uploaded_file, preds, screen, elements, lastRanked >>

\* Lines 217-223: filter, sort, return; line 271 binds predictions.
Rank ==
    /\ pc = "rank"
    /\ \E r \in { FilterLoop(preds, 1, << >>) } :
           IF r.ok
           THEN /\ predictions' = SortDesc(r.results)
                /\ pc' = "main"
                /\ err' = err
           ELSE /\ predictions' = predictions
                /\ pc' = "error"
                /\ err' = "IndexError"
    /\ UNCHANGED << model, label_columns, threshold, disease_info,
                    uploaded_file, preds, screen, elements, lastRanked >>

\* The test as it would be written "if len(predictions) > 1".
HasSeveralFindings(ps) == Len(ps) > 1

\* Line 273: if predictions:
HasFindings(ps) == ps # << >>

\* The main flow as it would be were the PDF checkbox placed after the
\* if/else instead of inside the if: a report is offered with no finding.
MainReportAlways ==
    /\ pc = "main"
    /\ IF HasFindings(predictions)
       THEN \E r \in { ShowFindings(predictions) } :
                /\ screen' = r.items
                /\ pc' = IF r.ok THEN "checkbox" ELSE "error"
                /\ err' = IF r.ok THEN err ELSE "KeyError"
       ELSE /\ screen' = << Item("healthy", "", << "healthy" >>) >>
            /\ pc' = "checkbox"
            /\ err' = err
    /\ UNCHANGED << model, label_columns, threshold, disease_info,
                    uploaded_file, preds, predictions, elements, lastRanked >>

\* Lines 273-337 and 351-352: the cards, or the healthy message.
Main ==
    /\ pc = "main"
    /\ IF HasFindings(predictions)
       THEN \E r \in { ShowFindings(predictions) } :
                /\ screen' = r.items
                /\ pc' = IF r.ok THEN "checkbox" ELSE "error"
                /\ err' = IF r.ok THEN err ELSE "KeyError"
       ELSE /\ screen' = << Item("healthy", "", << "healthy" >>) >>
            /\ pc' = "done"
            /\ err' = err
    /\ UNCHANGED << model, label_columns, threshold, disease_info,
                    uploaded_file, preds, predictions, elements, lastRanked >>

\* Lines 341-349: if st.checkbox(...): generate_pdf and the download button.
Pdf ==
    /\ pc = "checkbox"
    /\ \E checked \in BOOLEAN :
          IF checked
          THEN \E r \in { generate_pdf(predictions) } :
                   /\ elements' = r.elements
                   /\ screen' = IF r.ok
                                THEN Append(screen,
                                            Item("download", "", << "download_btn" >>))
                                ELSE screen
                   /\ pc' = IF r.ok THEN "done" ELSE "error"
                   /\ err' = IF r.ok THEN err ELSE "KeyError"
          ELSE /\ pc' = "done"
               /\ UNCHANGED << elements, screen, err >>
    /\ UNCHANGED << model, label_columns, threshold, disease_info,
                    uploaded_file, preds, predictions, lastRanked >>

\* Any widget interaction runs the whole script again on the same upload:
\* the globals are assigned again and predict_image is called again.
Rerun ==
    /\ pc \in { "done", "error" }
    /\ label_columns' = LabelColumnsLiteral
    /\ threshold' = THRESHOLD
    /\ disease_info' = DiseaseInfoLiteral
    /\ preds' = << >>
    /\ predictions' = << >>
    /\ screen' = << >>
    /\ elements' = << >>
    /\ err' = ""
    /\ lastRanked' = IF pc = "done" \/ err = "KeyError"
                     THEN [ valid |-> TRUE, predictions |-> predictions ]
                     ELSE lastRanked
    /\ pc' = "predict"
    /\ UNCHANGED << model, uploaded_file >>

\* The user clears the uploader: uploaded_file is None and line 257 skips.
Remove ==
    /\ pc \in { "done", "error" }
    /\ uploaded_file' = NoFile
    /\ pc' = "idle"
    /\ preds' = << >>
    /\ predictions' = << >>
    /\ screen' = << >>
    /\ elements' = << >>
    /\ err' = ""
    /\ lastRanked' = NoHistory
    /\ label_columns' = LabelColumnsLiteral
    /\ threshold' = THRESHOLD
    /\ disease_info' = DiseaseInfoLiteral
    /\ UNCHANGED model

Next == Upload \/ Infer \/ Rank \/ Main \/ Pdf \/ Rerun \/ Remove

Spec == Init /\ [][Next]_vars

SpecAnyWidth == InitAnyWidth /\ [][Next]_vars

-----------------------------------------------------------------------------
(* Properties *)

\* predict_image has returned in this run: predictions is its result.
Ranked == pc \in { "main", "checkbox", "done" } \/ (pc = "error" /\ err = "KeyError")

CorrectLength == Len(preds) = Len(LabelColumnsLiteral)

Clears(i) == preds[i] > THRESHOLD

Pair(i) == << LabelColumnsLiteral[i], preds[i] >>

Places(finding) == { j \in DOMAIN predictions : predictions[j] = finding }

\* C1: for a vector of correct length the findings are exactly the pairs
\* (label_columns[i], preds[i]) with preds[i] > THRESHOLD, each once: equal to
\* the threshold is excluded, nothing above it is dropped, nothing at or below
\* it is included.
C1_FindingsAreExactlyThoseAboveThreshold ==
    (Ranked /\ CorrectLength) =>
        /\ \A i \in DOMAIN preds :
              Cardinality(Places(Pair(i))) = IF Clears(i) THEN 1 ELSE 0
        /\ \A j \in DOMAIN predictions :
              \E i \in DOMAIN preds : Clears(i) /\ predictions[j] = Pair(i)

\* A vector with a probability exactly at the threshold beside one above it.
C1_Witness ==
    /\ pc = "main"
    /\ CorrectLength
    /\ \E i, k \in DOMAIN preds : preds[i] = THRESHOLD /\ Clears(k)
    /\ predictions # << >>

Secondary == Tail(predictions)

\* C2 as stated: the secondary list is strictly descending (each secondary's
\* confidence strictly greater than the next one's) and the primary's
\* confidence is at least every secondary's.
C2_SecondaryStrictlyDescending ==
    (Ranked /\ CorrectLength /\ predictions # << >>) =>
        /\ \A j \in 1..(Len(Secondary) - 1) : Secondary[j][2] > Secondary[j + 1][2]
        /\ \A j \in DOMAIN Secondary : predictions[1][2] >= Secondary[j][2]

\* C2 as amended: the secondary list is in descending order with equal
\* confidences allowed next to each other (each secondary's confidence is at
\* least the next one's), and the primary's confidence is at least every
\* secondary's.
C2_SecondaryDescending ==
    (Ranked /\ CorrectLength /\ predictions # << >>) =>
        /\ \A j \in 1..(Len(Secondary) - 1) : Secondary[j][2] >= Secondary[j + 1][2]
        /\ \A j \in DOMAIN Secondary : predictions[1][2] >= Secondary[j][2]

\* Two secondaries with the same confidence below a primary with a greater
\* one, from a vector whose filtered pairs were not already in order.
C2_Witness ==
    /\ pc = "main"
    /\ CorrectLength
    /\ Len(predictions) >= 3
    /\ predictions[1][2] > predictions[2][2]
    /\ predictions[2][2] = predictions[3][2]
    /\ \E i, k \in DOMAIN preds : i < k /\ Clears(i) /\ preds[k] > preds[i]

LabelIndex(label) == CHOOSE i \in DOMAIN LabelColumnsLiteral : LabelColumnsLiteral[i] = label

\* C3: of two findings with the same probability, the one whose label is
\* declared earlier in label_columns comes earlier in the ranked findings.
C3_TiesInDeclarationOrder ==
    (Ranked /\ CorrectLength) =>
        \A j, k \in DOMAIN predictions :
            (j < k /\ predictions[j][2] = predictions[k][2]) =>
                LabelIndex(predictions[j][1]) < LabelIndex(predictions[k][1])

\* A tie that the sort had to carry past a smaller probability: the tied
\* labels are declared on both sides of a label with a smaller one.
C3_Witness ==
    /\ pc = "main"
    /\ CorrectLength
    /\ \E i, m, k \in DOMAIN preds :
          /\ i < m /\ m < k
          /\ Clears(m)
          /\ preds[i] > preds[m]
          /\ preds[k] = preds[i]

HealthyMessage == << Item("healthy", "", << "healthy" >>) >>

\* C4: the ranking returns the empty list exactly when no probability is
\* above the threshold; then the run ends with the healthy message alone, no
\* card and no report, and not as an error; otherwise the primary card is
\* shown and the healthy message is not.
C4_NoFindingIffNothingAboveThreshold ==
    /\ (Ranked /\ CorrectLength) =>
          (predictions = << >> <=> \A i \in DOMAIN preds : ~Clears(i))
    /\ (pc = "error" /\ uploaded_file.scorable
          /\ Len(uploaded_file.scores) = Len(LabelColumnsLiteral)) =>
          \E i \in DOMAIN uploaded_file.scores : uploaded_file.scores[i] > THRESHOLD
    /\ (pc \in { "checkbox", "done" } /\ CorrectLength) =>
          IF predictions = << >>
          THEN pc = "done" /\ screen = HealthyMessage /\ elements = << >> /\ err = ""
          ELSE /\ screen[1].kind = "primary"
               /\ screen[1].label = predictions[1][1]
               /\ \A k \in DOMAIN screen : screen[k].kind # "healthy"

\* A run that ended with the healthy message for a vector with nothing above
\* the threshold.
C4_Witness ==
    /\ pc = "done"
    /\ CorrectLength
    /\ predictions = << >>
    /\ screen = HealthyMessage

\* C5: a vector whose length is not the number of labels makes the call fail
\* and return no findings; it is never accepted, truncated or padded.
C5_LengthMismatchIsFatal ==
    (uploaded_file.scorable /\ Len(uploaded_file.scores) # Len(LabelColumnsLiteral)
        /\ pc \in { "main", "checkbox", "done", "error" }) =>
        (pc = "error" /\ predictions = << >>)

IsDigit(c) == \E d \in 0..9 : Digit(d) = c

DigitValue(c) == CHOOSE d \in 0..9 : Digit(d) = c

RECURSIVE Number(_)
Number(cs) == IF cs = << >> THEN 0
              ELSE 10 * Number(SubSeq(cs, 1, Len(cs) - 1)) + DigitValue(cs[Len(cs)])

\* text reads "Confidence: <digits>.<two digits>%", and the number it shows
\* is prob*100 to within half a hundredth.
ShowsPercent(text, prob) ==
    LET n == Len(text)
    IN  /\ n >= 6
        /\ text[1] = "Confidence: "
        /\ text[n] = "%"
        /\ text[n - 3] = "."
        /\ \A k \in (2..(n - 4)) \cup { n - 2, n - 1 } : IsDigit(text[k])
        /\ LET shown == 100 * Number(SubSeq(text, 2, n - 4))
                        + Number(SubSeq(text, n - 2, n - 1))
           IN  100 * shown - prob \in -50..50

Headings(els) == { k \in DOMAIN els : els[k].style = "Heading2" }

\* C6: the report has one section per finding, in the order of the ranked
\* list, none left out or repeated; each section has the finding's label, its
\* confidence as a percentage with exactly 2 decimal places, and the
\* description, treatment and spray advice of that label's entry.
C6_OneSectionPerFindingInOrder ==
    (pc = "done" /\ elements # << >>) =>
        /\ Len(elements) = 2 + 6 * Len(predictions)
        /\ Cardinality(Headings(elements)) = Len(predictions)
        /\ \A k \in DOMAIN predictions :
              LET at      == 2 + 6 * (k - 1)
                  disease == predictions[k][1]
                  entry   == DiseaseInfoLiteral[disease]
              IN  /\ elements[at + 1].style = "Heading2"
                  /\ elements[at + 1].text = << "Disease: ", disease >>
                  /\ ShowsPercent(elements[at + 2].text, predictions[k][2])
                  /\ elements[at + 3].text = << "Info: ", entry.info >>
                  /\ elements[at + 4].text = << "Treatment: ", entry.treatment >>
                  /\ elements[at + 5].text = << "Spray Suggestion: ", entry.spray >>
                  /\ elements[at + 6].kind = "Spacer"

\* A report of at least three findings, one of them with a confidence that
\* rounds up in the second decimal place.
C6_Witness ==
    /\ pc = "done"
    /\ Len(predictions) >= 3
    /\ Len(elements) > 2
    /\ predictions[1][2] # predictions[3][2]
    /\ \E k \in DOMAIN predictions : predictions[k][2] % 100 > 50

\* C7: every label of label_columns has an entry in disease_info with the
\* info, treatment and spray fields, and no lookup made while showing the
\* primary, the secondaries or the report sections fails.
C7_EveryLabelHasAnEntry ==
    /\ \A i \in DOMAIN label_columns : HasEntry(label_columns[i])
    /\ err # "KeyError"
    /\ (pc \in { "checkbox", "done" } /\ predictions # << >>) =>
          \A k \in DOMAIN predictions :
              \E m \in DOMAIN screen :
                  /\ screen[m].kind = "expander"
                  /\ screen[m].label = predictions[k][1]

\* All eight labels are findings; all of them were shown and put in the report.
C7_Witness ==
    /\ pc = "done"
    /\ Len(predictions) = Len(LabelColumnsLiteral)
    /\ Len(elements) > 2

\* C8 as stated: with no finding, generate_pdf emits a document with exactly
\* one section, for the healthy outcome.
C8_HealthyReportHasOneSection ==
    (pc = "done" /\ CorrectLength /\ predictions = << >>) =>
        (elements # << >> /\ Cardinality(Headings(elements)) = 1)

\* C8 as amended: with no finding, generate_pdf is not called and there is no
\* report document; the healthy outcome is the one healthy message on the page.
C8_HealthyOutcomeHasNoReport ==
    (Ranked /\ CorrectLength /\ predictions = << >>) =>
        /\ pc \in { "main", "done" }
        /\ elements = << >>
        /\ pc = "done" => screen = HealthyMessage

\* A second run on an image with every probability exactly at the threshold
\* has ended healthy.
C8_Witness ==
    /\ pc = "done"
    /\ CorrectLength
    /\ predictions = << >>
    /\ elements = << >>
    /\ lastRanked.valid
    /\ \A i \in DOMAIN preds : preds[i] = THRESHOLD

\* C9: when model.predict fails the run stops there: the filter and sort, the
\* cards and generate_pdf do not run, so the ranking and the report only ever
\* work on the complete vector of a successful call, and nothing partial is
\* produced.
C9_FailedInferenceShortCircuits ==
    /\ err = "InferenceError" =>
          /\ pc = "error"
          /\ ~uploaded_file.scorable
          /\ predictions = << >> /\ screen = << >> /\ elements = << >>
    /\ (pc \in { "rank", "main", "checkbox", "done" } \/ screen # << >> \/ elements # << >>) =>
          /\ uploaded_file.scorable
          /\ preds = uploaded_file.scores
          /\ Len(preds) = model

\* A run ended by the failure of model.predict.
C9_Witness ==
    /\ pc = "error"
    /\ err = "InferenceError"
    /\ ~uploaded_file.scorable
    /\ preds = << >>

====
